---- MODULE Spec2Model ----
(***************************************************************************)
(* Model of src/reuse/__init__.py: the ReuseInfo record with its copy and  *)
(* copy_union operations, its truthiness and                               *)
(* contains_copyright_or_licensing, and the ignore patterns for file names.*)
(***************************************************************************)
EXTENDS Naturals, Sequences, FiniteSets, TLC

-----------------------------------------------------------------------------
(* Python values.  Every value carries its type, because copy_union decides *)
(* by isinstance(value, set) and __bool__ by the truth value of each value.  *)

None == [type |-> "NoneType"]

set(s) == [type |-> "set", v |-> s]

str(s) == [type |-> "str", v |-> s]

pybool(b) == [type |-> "bool", v |-> b]

\* class SourceType(Enum): a member is identified by its name.
SourceType == {[type |-> "SourceType", v |-> n] :
                 n \in {"DOT_LICENSE_FILE", "FILE_HEADER", "DEP5_FILE"}}

\* bool(x): None is false, a set or str is true iff it is not empty, an
\* Enum member is always true.
bool(x) ==
  CASE x.type = "NoneType" -> FALSE
    [] x.type = "set" -> x.v # {}
    [] x.type = "str" -> x.v # ""
    [] x.type = "bool" -> x.v
    [] x.type = "SourceType" -> TRUE

\* isinstance(value, set)
isinstance_set(value) == value.type = "set"

\* a or b: the first operand if it is true, else the second.
py_or(a, b) == IF bool(a) THEN a ELSE b

\* any(values)
any(values) == \E x \in values : bool(x)

\* A dict is a function from its keys; {} is the function with no key.
EmptyDict == [k \in {} |-> None]

\* d.get(key, default)
get(d, key, default) == IF key \in DOMAIN d THEN d[key] ELSE default

\* dict.values()
values(d) == {d[k] : k \in DOMAIN d}

\* set.union(other): a new set; the receiver and the argument are left as
\* they were.  value and other are the two operands after the call.
set_update(value, other) ==
  [ret |-> set(value.v \cup other.v), value |-> set(value.v \cup other.v), other |-> other]

set_replace(value, other) ==
  [ret |-> other, value |-> value, other |-> other]

set_union(value, other) ==
  [ret |-> set(value.v \cup other.v), value |-> value, other |-> other]

-----------------------------------------------------------------------------
(* class ReuseInfo *)

SetFields == {"spdx_expressions", "copyright_lines", "contributor_lines"}

ScalarFields == {"source_path", "source_type"}

\* The dataclass fields, which are the keys of self.__dict__.
Fields == SetFields \cup ScalarFields

\* The field defaults: field(default_factory=set) and None.
FieldDefault(key) == IF key \in SetFields THEN set({}) ELSE None

\* ReuseInfo(**kwargs): the generated __init__; the record is its __dict__.
ReuseInfo(kwargs) == [key \in Fields |-> get(kwargs, key, FieldDefault(key))]

\* _check_nonexistent: the exception raised, "" when none is.
check_nonexistent_all(self, kwargs) ==
  IF DOMAIN kwargs # {} /\ DOMAIN kwargs \cap DOMAIN self = {} THEN "KeyError" ELSE ""

_check_nonexistent(self, kwargs) ==
  LET nonexistent_attributes == DOMAIN kwargs \ DOMAIN self
  IN IF nonexistent_attributes # {} THEN "KeyError" ELSE ""

\* The outcome of a call: the exception raised ("" when none), the value
\* returned (None when the call raised), and self.__dict__ and kwargs as
\* the call leaves them.
Raised(exc, self, kwargs) ==
  [exc |-> exc, ret |-> None, self |-> self, kwargs |-> kwargs]

copy_unioning(self, kwargs) ==
  IF _check_nonexistent(self, kwargs) # ""
  THEN Raised(_check_nonexistent(self, kwargs), self, kwargs)
  ELSE [exc |-> "",
        ret |-> ReuseInfo([key \in DOMAIN self |->
                  IF isinstance_set(self[key]) /\ key \in DOMAIN kwargs
                  THEN set(self[key].v \cup kwargs[key].v)
                  ELSE get(kwargs, key, self[key])]),
        self |-> self,
        kwargs |-> kwargs]

copy(self, kwargs) ==
  IF _check_nonexistent(self, kwargs) # ""
  THEN Raised(_check_nonexistent(self, kwargs), self, kwargs)
  ELSE LET new_kwargs == [key \in DOMAIN self |-> get(kwargs, key, self[key])]
       IN [exc |-> "", ret |-> ReuseInfo(new_kwargs), self |-> self, kwargs |-> kwargs]

\* The loop body of copy_union for one key: the union when the current value
\* is a set and the override is true, else the override or the old value.
UnionCase(self, kwargs, key) ==
  isinstance_set(self[key]) /\ bool(get(kwargs, key, None))

copy_union(self, kwargs) ==
  IF _check_nonexistent(self, kwargs) # ""
  THEN Raised(_check_nonexistent(self, kwargs), self, kwargs)
  ELSE LET u(key) == set_union(self[key], get(kwargs, key, None))
           new_kwargs == [key \in DOMAIN self |->
                            IF UnionCase(self, kwargs, key)
                            THEN u(key).ret
                            ELSE get(kwargs, key, self[key])]
       IN [exc |-> "",
           ret |-> ReuseInfo(new_kwargs),
           self |-> [key \in DOMAIN self |->
                       IF UnionCase(self, kwargs, key) THEN u(key).value ELSE self[key]],
           kwargs |-> [key \in DOMAIN kwargs |->
                         IF key \in DOMAIN self /\ UnionCase(self, kwargs, key)
                         THEN u(key).other ELSE kwargs[key]]]

contains_contributors(self) ==
  bool(py_or(self["spdx_expressions"], self["contributor_lines"]))

contains_copyright_or_licensing(self) ==
  bool(py_or(self["spdx_expressions"], self["copyright_lines"]))

all_values(self) == \A x \in values(self) : bool(x)

ReuseInfo_bool(self) == any(values(self))

-----------------------------------------------------------------------------
(* Regular expressions, as the re module matches them.  A string is a      *)
(* sequence of one-character strings; file names hold no line terminator,  *)
(* so that "." matches every character of a name and "$" only its end.     *)

Lit(c) == [op |-> "lit", c |-> c]

\* "." : any character
AnyChar == [op |-> "any"]

\* "^"
Bol == [op |-> "bol"]

\* "$"
Eol == [op |-> "eol"]

\* r1 r2 ... : one after the other
Cat(rs) == [op |-> "cat", rs |-> rs]

\* r1|r2|...
Alt(rs) == [op |-> "alt", rs |-> rs]

\* r?
Opt(r) == [op |-> "opt", r |-> r]

\* r*
Star(r) == [op |-> "star", r |-> r]

\* r+
Plus(r) == [op |-> "plus", r |-> r]

\* A run of literal characters.
Text(cs) == Cat([i \in 1..Len(cs) |-> Lit(cs[i])])

RECURSIVE Ends(_, _, _)
RECURSIVE CatEnds(_, _, _, _)
RECURSIVE StarEnds(_, _, _)

\* The positions at which a match of r that starts at position i of s can end
\* (the position after its last character).
Ends(r, s, i) ==
  CASE r.op = "lit" -> IF i <= Len(s) /\ s[i] = r.c THEN {i + 1} ELSE {}
    [] r.op = "any" -> IF i <= Len(s) THEN {i + 1} ELSE {}
    [] r.op = "bol" -> IF i = 1 THEN {i} ELSE {}
    [] r.op = "eol" -> IF i = Len(s) + 1 THEN {i} ELSE {}
    [] r.op = "cat" -> CatEnds(r.rs, 1, s, {i})
    [] r.op = "alt" -> UNION {Ends(r.rs[k], s, i) : k \in 1..Len(r.rs)}
    [] r.op = "opt" -> {i} \cup Ends(r.r, s, i)
    [] r.op = "star" -> StarEnds(r.r, s, {i})
    [] r.op = "plus" -> StarEnds(r.r, s, Ends(r.r, s, i))

CatEnds(rs, k, s, from) ==
  IF k > Len(rs) THEN from
  ELSE CatEnds(rs, k + 1, s, UNION {Ends(rs[k], s, j) : j \in from})

StarEnds(r, s, from) ==
  LET more == from \cup UNION {Ends(r, s, j) : j \in from}
  IN IF more = from THEN from ELSE StarEnds(r, s, more)

\* pattern.match(s): a match that starts at the beginning of s.
match(pattern, s) == Ends(pattern, s, 1) # {}

-----------------------------------------------------------------------------
(* The ignore patterns for file names. *)

s_LICENSE == <<"L", "I", "C", "E", "N", "S", "E">>

s_COPYING == <<"C", "O", "P", "Y", "I", "N", "G">>

s_DotGit == <<".", "g", "i", "t">>

s_DotGitkeep == <<".", "g", "i", "t", "k", "e", "e", "p">>

s_DotHgtags == <<".", "h", "g", "t", "a", "g", "s">>

s_DotLicense == <<".", "l", "i", "c", "e", "n", "s", "e">>

s_CAL == <<"C", "A", "L", "-", "1">>

s_CombinedWorkException == <<"-", "C", "o", "m", "b", "i", "n", "e", "d", "-", "W", "o", "r", "k", "-", "E", "x", "c", "e", "p", "t", "i", "o", "n">>

s_SHL == <<"S", "H", "L", "-", "2">>

s_DotSpdx == <<".", "s", "p", "d", "x">>

s_rdf == <<"r", "d", "f">>

s_json == <<"j", "s", "o", "n">>

s_xml == <<"x", "m", "l">>

s_yml == <<"y", "m", "l">>

s_yaml == <<"y", "a", "m", "l">>

\* r".*\.spdx$" and r".*\.spdx.(rdf|json|xml|ya?ml)$"
_IGNORE_SPDX_PATTERNS ==
  << Cat(<<Star(AnyChar), Text(s_DotSpdx), Eol>>),
     Cat(<<Star(AnyChar), Text(s_DotSpdx), AnyChar,
           Alt(<<Text(s_rdf), Text(s_json), Text(s_xml),
                 Cat(<<Lit("y"), Opt(Lit("a")), Lit("m"), Lit("l")>>)>>),
           Eol>>) >>

\* r"(\..+)?$", the tail of the CAL-1.0 and SHL-2.1 patterns
OptExtension == Cat(<<Opt(Cat(<<Lit("."), Plus(AnyChar)>>)), Eol>>)

\* The eight patterns of the list literal and, appended by extend(), the two
\* of _IGNORE_SPDX_PATTERNS.
_IGNORE_FILE_PATTERNS ==
  << Cat(<<Bol, Text(s_LICENSE)>>),
     Cat(<<Bol, Text(s_COPYING)>>),
     Cat(<<Bol, Text(s_DotGit), Eol>>),
     Cat(<<Bol, Text(s_DotGitkeep), Eol>>),
     Cat(<<Bol, Text(s_DotHgtags), Eol>>),
     Cat(<<Star(AnyChar), Text(s_DotLicense), Eol>>),
     \* r"^CAL-1.0(-Combined-Work-Exception)?(\..+)?$"
     Cat(<<Bol, Text(s_CAL), AnyChar, Lit("0"),
           Opt(Text(s_CombinedWorkException)), OptExtension>>),
     \* r"^SHL-2.1(\..+)?$"
     Cat(<<Bol, Text(s_SHL), AnyChar, Lit("1"), OptExtension>>) >>
  \o _IGNORE_SPDX_PATTERNS

\* A file name matches one of the patterns of a list.
MatchesAny(patterns, name) == \E k \in 1..Len(patterns) : match(patterns[k], name)

is_ignored_file(name) == MatchesAny(_IGNORE_FILE_PATTERNS, name)

is_spdx_metadata_file(name) == MatchesAny(_IGNORE_SPDX_PATTERNS, name)

-----------------------------------------------------------------------------
(* The values the calls are made with. *)

\* The largest number of keyword arguments in one call.
MaxKeys == 2

Expressions == {"MIT"}

CopyrightLines == {"Jane Doe", "Mr X"}

ContributorLines == {"Jane Doe"}

Paths == {"", "foo.py"}

\* A keyword that is no field of ReuseInfo.
UnknownKeys == {"licenses"}

Keys == Fields \cup UnknownKeys

ValuesOf(key) ==
  CASE key = "spdx_expressions" -> {set(s) : s \in SUBSET Expressions}
    [] key = "copyright_lines" -> {set(s) : s \in SUBSET CopyrightLines}
    [] key = "contributor_lines" -> {set(s) : s \in SUBSET ContributorLines}
    [] key = "source_path" -> {None} \cup {str(p) : p \in Paths}
    [] key = "source_type" -> {None} \cup SourceType
    [] OTHER -> {set({"MIT"})}

\* The keyword arguments over the keys K: at most MaxKeys of them, each with
\* a value of its field's type.
KeywordArgs(K) ==
  UNION {{kw \in [D -> UNION {ValuesOf(k) : k \in D}] : \A k \in D : kw[k] \in ValuesOf(k)} :
           D \in {D \in SUBSET K : Cardinality(D) <= MaxKeys}}

ConstructorArgs == KeywordArgs(Fields)

Overrides == KeywordArgs(Keys)

-----------------------------------------------------------------------------
(* The state: one record, the call being made on it and what it returned.  *)

VARIABLES
  pc,       \* "idle" between calls, "called" when a call has returned
  op,       \* the operation called, "" when idle
  self,     \* the record's __dict__
  kwargs,   \* the keyword arguments of the call
  result,   \* [exc, ret]: the exception raised ("" for none), the value returned
  self0,    \* self.__dict__ as it was when the call was made
  kwargs0,  \* kwargs as they were when the call was made
  folded,   \* the set fields of self that copy_union calls have put evidence into
  name,     \* the file name (the last segment of a path)
  query,    \* the predicate asked about name, "" when none has been
  answer    \* what the predicate returned

rvars == <<pc, op, self, kwargs, result, self0, kwargs0, folded>>

pvars == <<name, query, answer>>

vars == <<rvars, pvars>>

NoResult == [exc |-> "", ret |-> None]

InitRecord ==
  /\ pc = "idle"
  /\ op = ""
  /\ self = ReuseInfo(EmptyDict)
  /\ kwargs = EmptyDict
  /\ result = NoResult
  /\ self0 = ReuseInfo(EmptyDict)
  /\ kwargs0 = EmptyDict
  /\ folded = {}

InitPath ==
  /\ name = <<>>
  /\ query = ""
  /\ answer = FALSE

Init == InitRecord /\ InitPath

\* ReuseInfo(**args): an extractor constructs a record.
Construct ==
  /\ UNCHANGED pvars
  /\ pc = "idle"
  /\ \E args \in ConstructorArgs :
       /\ kwargs' = args
       /\ kwargs0' = args
       /\ result' = [exc |-> "", ret |-> ReuseInfo(args)]
  /\ pc' = "called"
  /\ op' = "__init__"
  /\ self0' = self
  /\ UNCHANGED <<self, folded>>

\* self.copy(**kw)
Copy ==
  /\ UNCHANGED pvars
  /\ pc = "idle"
  /\ \E kw \in Overrides :
       LET out == copy(self, kw)
       IN /\ kwargs0' = kw
          /\ kwargs' = out.kwargs
          /\ self' = out.self
          /\ result' = [exc |-> out.exc, ret |-> out.ret]
  /\ pc' = "called"
  /\ op' = "copy"
  /\ self0' = self
  /\ UNCHANGED folded

\* self.copy_union(**kw)
CopyUnion ==
  /\ UNCHANGED pvars
  /\ pc = "idle"
  /\ \E kw \in Overrides :
       LET out == copy_union(self, kw)
       IN /\ kwargs0' = kw
          /\ kwargs' = out.kwargs
          /\ self' = out.self
          /\ result' = [exc |-> out.exc, ret |-> out.ret]
  /\ pc' = "called"
  /\ op' = "copy_union"
  /\ self0' = self
  /\ UNCHANGED folded

\* self.contains_copyright_or_licensing()
ContainsCopyrightOrLicensing ==
  /\ UNCHANGED pvars
  /\ pc = "idle"
  /\ pc' = "called"
  /\ op' = "contains_copyright_or_licensing"
  /\ result' = [exc |-> "", ret |-> pybool(contains_copyright_or_licensing(self))]
  /\ kwargs' = EmptyDict
  /\ kwargs0' = EmptyDict
  /\ self0' = self
  /\ UNCHANGED <<self, folded>>

\* bool(self)
Bool ==
  /\ UNCHANGED pvars
  /\ pc = "idle"
  /\ pc' = "called"
  /\ op' = "__bool__"
  /\ result' = [exc |-> "", ret |-> pybool(ReuseInfo_bool(self))]
  /\ kwargs' = EmptyDict
  /\ kwargs0' = EmptyDict
  /\ self0' = self
  /\ UNCHANGED <<self, folded>>

ReturnsRecord == op \in {"__init__", "copy", "copy_union"} /\ result.exc = ""

\* The call is over.  The caller goes on with the record it was given, as in
\* new = old.copy_union(...); a call that raised or returned a bool leaves it
\* with the record it had.
Return ==
  /\ UNCHANGED pvars
  /\ pc = "called"
  /\ pc' = "idle"
  /\ op' = ""
  /\ self' = IF ReturnsRecord THEN result.ret ELSE self
  /\ self0' = self'
  /\ kwargs' = EmptyDict
  /\ kwargs0' = EmptyDict
  /\ result' = NoResult
  /\ folded' =
       CASE op = "__init__" -> {}
         [] op = "copy" /\ result.exc = "" -> folded \ DOMAIN kwargs0
         [] op = "copy_union" /\ result.exc = "" ->
              (folded \ DOMAIN kwargs0)
                \cup {f \in SetFields \cap DOMAIN kwargs0 : bool(kwargs0[f])}
         [] OTHER -> folded

Next ==
  \/ Construct
  \/ Copy
  \/ CopyUnion
  \/ ContainsCopyrightOrLicensing
  \/ Bool
  \/ Return

Spec == Init /\ [][Next]_vars

-----------------------------------------------------------------------------
(* The claims about ReuseInfo, checked under Spec. *)

Called(o) == pc = "called" /\ op = o

Succeeded(o) == Called(o) /\ result.exc = ""

\* C1: after every successful copy_union call, each of spdx_expressions,
\* copyright_lines and contributor_lines of the returned record is a superset
\* of the same field of the receiver, also when the override of a set field
\* is present but empty.
C1_EvidenceNeverRetracted ==
  Succeeded("copy_union") =>
    \A f \in SetFields : self0[f].v \subseteq result.ret[f].v

\* C2: copy_union returns a record in which every set field with a non-empty
\* override is the union of the receiver's set and the override, every scalar
\* field named in the overrides is the override, and every field not named is
\* the receiver's.
C2_CopyUnionResult ==
  Succeeded("copy_union") =>
    \A key \in Fields :
      /\ key \notin DOMAIN kwargs0 => result.ret[key] = self0[key]
      /\ (key \in SetFields /\ key \in DOMAIN kwargs0 /\ kwargs0[key].v # {}) =>
           result.ret[key] = set(self0[key].v \cup kwargs0[key].v)
      /\ (key \in ScalarFields /\ key \in DOMAIN kwargs0) =>
           result.ret[key] = kwargs0[key]

\* A copy_union call that adds a new line to a non-empty set and names a
\* scalar field too.
C2_Witness ==
  /\ Succeeded("copy_union")
  /\ \E f \in SetFields \cap DOMAIN kwargs0 :
       /\ self0[f].v # {}
       /\ kwargs0[f].v # {}
       /\ ~(kwargs0[f].v \subseteq self0[f].v)
       /\ result.ret[f].v = self0[f].v \cup kwargs0[f].v
  /\ \E g \in ScalarFields \cap DOMAIN kwargs0 : kwargs0[g] # self0[g]

\* C3: copy returns a record in which every named field is the override
\* itself, set fields included, and every other field is the receiver's; with
\* no overrides the record returned equals the receiver.
C3_CopyResult ==
  Succeeded("copy") =>
    /\ \A key \in Fields :
         result.ret[key] = IF key \in DOMAIN kwargs0 THEN kwargs0[key] ELSE self0[key]
    /\ DOMAIN result.ret = Fields
    /\ kwargs0 = EmptyDict => result.ret = self0

\* A copy call that replaces a set holding a line the override does not hold.
C3_Witness ==
  /\ Succeeded("copy")
  /\ \E f \in SetFields \cap DOMAIN kwargs0 :
       /\ ~(self0[f].v \subseteq kwargs0[f].v)
       /\ result.ret[f] = kwargs0[f]
  /\ \E g \in Fields \ DOMAIN kwargs0 : bool(self0[g])

\* C4: copy and copy_union raise KeyError and return no record exactly when
\* some keyword is no field of the record, whatever valid keywords come with
\* it; with only existing fields named they return a record.
C4_UnknownKeyRaises ==
  (Called("copy") \/ Called("copy_union")) =>
    /\ result.exc = "KeyError" <=> ~(DOMAIN kwargs0 \subseteq Fields)
    /\ result.exc \in {"", "KeyError"}
    /\ result.exc = "KeyError" => result.ret = None
    /\ result.exc = "" => DOMAIN result.ret = Fields

\* A call that raised although it named a valid field next to the unknown one.
C4_Witness ==
  /\ Called("copy") \/ Called("copy_union")
  /\ result.exc = "KeyError"
  /\ DOMAIN kwargs0 \cap Fields # {}
  /\ DOMAIN kwargs0 \cap UnknownKeys # {}

\* C5: after a copy or copy_union call, whether it returned or raised, the
\* receiver's five fields and the override values are what they were before.
C5_ReceiverUnchanged ==
  (Called("copy") \/ Called("copy_union")) =>
    /\ self = self0
    /\ kwargs = kwargs0

\* A copy_union call that made a union with a line the receiver did not hold.
C5_Witness ==
  /\ Succeeded("copy_union")
  /\ \E f \in SetFields \cap DOMAIN kwargs0 :
       /\ ~(kwargs0[f].v \subseteq self0[f].v)
       /\ result.ret[f].v # self0[f].v
       /\ self[f] = self0[f]

\* The non-empty sets of values a set field can be given.
Evidence(f) == {x \in ValuesOf(f) : x.v # {}}

\* C6: for a set field f and non-empty sets s and t, folding s then t into a
\* record with copy_union gives the same f as folding t then s, and folding
\* the same set a second time changes nothing.
C6_FoldOrderIndependent ==
  Succeeded("copy_union") =>
    \A f \in SetFields \cap DOMAIN kwargs0 :
      kwargs0[f].v # {} =>
        LET t == kwargs0[f]
            fold(r, x) == copy_union(r, f :> x).ret
        IN /\ \A s \in Evidence(f) :
                fold(fold(self0, s), t)[f] = fold(fold(self0, t), s)[f]
           /\ fold(self0, t)[f] = result.ret[f]
           /\ fold(result.ret, t)[f] = result.ret[f]

\* A second fold into the same set field, of a set the first did not bring.
C6_Witness ==
  /\ Succeeded("copy_union")
  /\ \E f \in folded \cap DOMAIN kwargs0 :
       /\ kwargs0[f].v # {}
       /\ ~(kwargs0[f].v \subseteq self0[f].v)
       /\ Cardinality(result.ret[f].v) >= 2

\* Every attribute of the record is false: empty sets, no or an empty path,
\* no source type.
AllFalsy(r) ==
  /\ \A f \in SetFields : r[f] = set({})
  /\ r["source_path"] \in {None, str("")}
  /\ r["source_type"] = None

\* C7: a record is false exactly when each of its five attributes is false,
\* and true when some field is not empty; a record constructed with no
\* arguments has three empty sets and is false.
C7_Truthiness ==
  /\ Called("__bool__") => result.ret = pybool(~AllFalsy(self0))
  /\ (Called("__init__") /\ kwargs0 = EmptyDict) =>
       /\ \A f \in SetFields : result.ret[f] = set({})
       /\ ReuseInfo_bool(result.ret) = FALSE

\* bool() of a record whose only content is a contributor line.
C7_Witness ==
  /\ Called("__bool__")
  /\ result.ret = pybool(TRUE)
  /\ self0["contributor_lines"].v # {}
  /\ \A f \in Fields \ {"contributor_lines"} : ~bool(self0[f])

\* C8: contains_copyright_or_licensing() is true exactly when spdx_expressions
\* or copyright_lines is not empty, so it is false for a record that holds
\* only contributor lines, a path or a source type.
C8_ContainsCopyrightOrLicensing ==
  Called("contains_copyright_or_licensing") =>
    result.ret = pybool(self0["spdx_expressions"].v # {} \/ self0["copyright_lines"].v # {})

\* The query on a record that holds a contributor line and a path only.
C8_Witness ==
  /\ Called("contains_copyright_or_licensing")
  /\ result.ret = pybool(FALSE)
  /\ self0["contributor_lines"].v # {}
  /\ bool(self0["source_path"])

-----------------------------------------------------------------------------
(* The file names asked about. *)

\* The largest number of pieces a file name is put together from.
MaxPieces == 3

Pieces ==
  { <<"L", "I", "C", "E", "N", "S", "E">>,
    <<"C", "O", "P", "Y", "I", "N", "G">>,
    <<"l", "i", "c", "e", "n", "s", "e">>,
    <<"m", "y">>,
    <<".", "g", "i", "t">>,
    <<"k", "e", "e", "p">>,
    <<".", "h", "g", "t", "a", "g", "s">>,
    <<".", "l", "i", "c", "e", "n", "s", "e">>,
    <<"C", "A", "L", "-", "1", ".", "0">>,
    <<"C", "A", "L", "-", "1", "x", "0">>,
    <<"-", "C", "o", "m", "b", "i", "n", "e", "d", "-", "W", "o", "r", "k", "-", "E", "x", "c", "e", "p", "t", "i", "o", "n">>,
    <<"S", "H", "L", "-", "2", ".", "1">>,
    <<"S", "H", "L", "-", "2", "x", "1">>,
    <<".">>,
    <<"x">>,
    <<".", "t", "x", "t">>,
    <<".", "p", "y">>,
    <<"n", "o", "t", "i", "c", "e">>,
    <<".", "s", "p", "d", "x">>,
    <<".", "j", "s", "o", "n">>,
    <<".", "J", "S", "O", "N">>,
    <<"x", "j", "s", "o", "n">>,
    <<".", "r", "d", "f">>,
    <<".", "x", "m", "l">>,
    <<".", "y", "m", "l">>,
    <<".", "y", "a", "m", "l">>,
    <<".", "y", "a", "a", "m", "l">> }

RECURSIVE NamesOf(_)

\* The names put together from at most n pieces.
NamesOf(n) ==
  IF n = 0 THEN {<<>>}
  ELSE LET shorter == NamesOf(n - 1)
       IN shorter \cup {a \o b : a \in shorter, b \in Pieces}

\* A walker comes upon a file of any of the names.
InitNames ==
  /\ InitRecord
  /\ name \in NamesOf(MaxPieces)
  /\ query = ""
  /\ answer = FALSE

\* is_ignored_file(name)
IsIgnoredFile ==
  /\ query = ""
  /\ query' = "is_ignored_file"
  /\ answer' = is_ignored_file(name)
  /\ UNCHANGED <<name, rvars>>

\* is_spdx_metadata_file(name)
IsSpdxMetadataFile ==
  /\ query = ""
  /\ query' = "is_spdx_metadata_file"
  /\ answer' = is_spdx_metadata_file(name)
  /\ UNCHANGED <<name, rvars>>

NextPath ==
  \/ IsIgnoredFile
  \/ IsSpdxMetadataFile

SpecPath == InitNames /\ [][NextPath]_vars

-----------------------------------------------------------------------------
(* The claims about the file name patterns, checked under SpecPath. *)

StartsWith(s, prefix) ==
  Len(s) >= Len(prefix) /\ SubSeq(s, 1, Len(prefix)) = prefix

EndsWith(s, suffix) ==
  Len(s) >= Len(suffix) /\ SubSeq(s, Len(s) - Len(suffix) + 1, Len(s)) = suffix

\* s is stem, or stem followed by a dot and an extension of one character or more.
WithOptionalExtension(s, stem) ==
  s = stem \/ (StartsWith(s, stem \o <<".">>) /\ Len(s) > Len(stem) + 1)

s_CAL10 == s_CAL \o <<".", "0">>

s_SHL21 == s_SHL \o <<".", "1">>

Lower(c) ==
  CASE c = "J" -> "j" [] c = "S" -> "s" [] c = "O" -> "o" [] c = "N" -> "n"
    [] OTHER -> c

LowerCase(s) == [i \in 1..Len(s) |-> Lower(s[i])]

SpdxExtensions == {s_rdf, s_json, s_xml, s_yml, s_yaml}

\* C10: a file name is an SPDX metadata file exactly when it ends in .spdx,
\* or in .spdx, a literal dot and one of the extensions rdf, json, xml, yml,
\* yaml in upper or lower case.
C10_SpdxMetadataExactly ==
  query = "is_spdx_metadata_file" =>
    answer = ( \/ EndsWith(name, s_DotSpdx)
               \/ \E ext \in SpdxExtensions :
                    /\ Len(name) >= Len(ext)
                    /\ LowerCase(SubSeq(name, Len(name) - Len(ext) + 1, Len(name))) = ext
                    /\ EndsWith(SubSeq(name, 1, Len(name) - Len(ext)), s_DotSpdx \o <<".">>) )

====
